---- MODULE Spec2Model ----
(***************************************************************************)
(* Rate acquisition and caching policy of the Manakalo currency converter  *)
(* (ratesService.js): the rates_cache table, loadRatesFromCache,           *)
(* saveRatesToCache, fetchLiveRates and getRates, run by several           *)
(* overlapping callers on one JavaScript event loop.  Every synchronous    *)
(* stretch of getRates is one atomic step; the two awaits of               *)
(* fetchLiveRates are the only points at which other work interleaves.     *)
(*                                                                         *)
(* JavaScript values are records so that any two of them can be compared:  *)
(* a number n is [num |-> n], undefined is Undefined, null is Null.  Rates *)
(* are carried in hundredths (0.92 is 92, 4500 is 450000).  An object is a *)
(* function from its own keys to values; reading a key it does not have    *)
(* gives Undefined (JSGet).                                                *)
(*                                                                         *)
(* The same module holds the conversion history (table conversion_history, *)
(* saveToHistory, getHistory, clearHistory).  Spec runs the rate policy,   *)
(* SpecHistory the history operations, SpecStore both on the one database. *)
(***************************************************************************)
EXTENDS Integers, Sequences, FiniteSets, TLC

\* ---------------------------------------------------------------- bounds
MaxClockHalfHours == 3

\* ids that AUTOINCREMENT may hand out before the history model stops saving
MaxIds == 3

\* half seconds that pass in the history model
MaxHalfSeconds == 4

\* the user's gestures on the converter screen in one run (changes of the
\* amount or of the currency pair, pulls to refresh)
MaxGestures == 2

\* two overlapping callers of getRates: the initial load of the converter
\* screen and a pull-to-refresh
Callers == {"load", "refresh"}

\* the clock advances in steps of 30 and 59.5 minutes, so that ages of 0.5,
\* 29.5, 30, 59.5, 60 (exactly one hour), 89.5 and 90 minutes all occur
TickSteps == {1800000, 3570000}
MaxClockMs == MaxClockHalfHours * 1800000

\* ------------------------------------------------------------- JS values
Null == [null |-> TRUE]
Undefined == [undefined |-> TRUE]
Num(n) == [num |-> n]

JSGet(obj, k) == IF k \in DOMAIN obj THEN obj[k] ELSE Undefined

\* Date.prototype.toISOString and new Date(text).getTime(): the text keeps
\* the instant to the millisecond
ToISOString(ms) == [iso |-> ms]
DateParse(text) == text.iso

\* ------------------------------------------------- IEEE 754 double values
\* The numbers convert computes with.  A finite positive double is
\* [e |-> E, m |-> M]: the value M * 2^E with M a 53-bit integer
\* (2^52 <= M < 2^53) held as four limbs of 14 bits, least significant first.
\* Zero is DZero, Infinity is DInf, NaN is NaN.  The amounts and rates of the
\* model are not negative, so the sign bit is left out; exponents of the
\* model stay far inside the normal range.  FMul and FDiv round to nearest,
\* ties to even, as the JavaScript operators * and / do.
Base == 2^14

DZero == [zero |-> TRUE]
DInf == [inf |-> TRUE]
NaN == [nan |-> TRUE]

LimbAt(x, i) == IF i \in 1..Len(x) THEN x[i] ELSE 0

RECURSIVE CarryFrom(_, _, _)
CarryFrom(x, i, c) ==
    IF i > Len(x) THEN <<>>
    ELSE <<(x[i] + c) % Base>> \o CarryFrom(x, i + 1, (x[i] + c) \div Base)

\* limbs of the number whose (possibly too large) limbs are x
Normalize(x) == CarryFrom(x, 1, 0)

RECURSIVE SumProducts(_, _, _, _)
SumProducts(a, b, k, i) ==
    IF i > Len(a) THEN 0
    ELSE a[i] * LimbAt(b, k + 1 - i) + SumProducts(a, b, k, i + 1)

MulLimbs(a, b) ==
    Normalize([k \in 1..(Len(a) + Len(b)) |-> SumProducts(a, b, k, 1)])

RECURSIVE BorrowFrom(_, _, _, _)
BorrowFrom(a, b, i, br) ==
    IF i > Len(a) THEN <<>>
    ELSE LET d == a[i] - b[i] - br
         IN  IF d < 0 THEN <<d + Base>> \o BorrowFrom(a, b, i + 1, 1)
                      ELSE <<d>> \o BorrowFrom(a, b, i + 1, 0)

\* a - b for a >= b of the same length
SubLimbs(a, b) == BorrowFrom(a, b, 1, 0)

RECURSIVE GeqFrom(_, _, _)
GeqFrom(a, b, i) ==
    IF i = 0 THEN TRUE
    ELSE IF a[i] # b[i] THEN a[i] > b[i]
    ELSE GeqFrom(a, b, i - 1)

\* a >= b for a, b of the same length
GeqLimbs(a, b) == GeqFrom(a, b, Len(a))

DoubleLimbs(a) == Normalize([i \in 1..Len(a) |-> 2 * a[i]])

AddOne(a) == Normalize([i \in 1..Len(a) |-> IF i = 1 THEN a[i] + 1 ELSE a[i]])

SubOne(a) == SubLimbs(a, [i \in 1..Len(a) |-> IF i = 1 THEN 1 ELSE 0])

IsZeroLimbs(a) == \A i \in 1..Len(a) : a[i] = 0

\* number of bits of a positive number
BitLen(x) ==
    LET top == CHOOSE i \in 1..Len(x) :
                  x[i] # 0 /\ \A j \in (i + 1)..Len(x) : x[j] = 0
        w == CHOOSE k \in 1..14 : 2^(k - 1) <= x[top] /\ x[top] < 2^k
    IN  14 * (top - 1) + w

\* bit k of x, bit 0 the least significant
BitAt(x, k) == (LimbAt(x, (k \div 14) + 1) \div 2^(k % 14)) % 2

\* the bits of x below bit k are all 0
LowBitsZero(x, k) ==
    /\ \A i \in 1..(k \div 14) : LimbAt(x, i) = 0
    /\ LimbAt(x, (k \div 14) + 1) % 2^(k % 14) = 0

\* x \div 2^s, in n limbs
ShiftRightLimbs(x, s, n) ==
    LET q == s \div 14
        r == s % 14
    IN  [i \in 1..n |->
            (LimbAt(x, i + q) \div 2^r) + (LimbAt(x, i + q + 1) % 2^r) * 2^(14 - r)]

\* x * 2^s, in n limbs
ShiftLeftLimbs(x, s, n) ==
    LET q == s \div 14
        r == s % 14
    IN  [i \in 1..n |->
            ((LimbAt(x, i - q) * 2^r) % Base) + (LimbAt(x, i - q - 1) \div 2^(14 - r))]

\* 2^52 and 2^53 in four limbs
TwoTo52 == <<0, 0, 0, 2^10>>
TwoTo53 == <<0, 0, 0, 2^11>>

\* the double nearest to N * 2^e (or to a value just above it, when sticky),
\* for N of more than 53 bits: round to nearest, ties to even
RoundPack(N, sticky, e) ==
    LET shift == BitLen(N) - 53
        kept == ShiftRightLimbs(N, shift, 4)
        half == BitAt(N, shift - 1) = 1
        below == sticky \/ ~LowBitsZero(N, shift - 1)
        up == half /\ (below \/ kept[1] % 2 = 1)
        m == IF up THEN AddOne(kept) ELSE kept
    IN  IF m = TwoTo53 THEN [e |-> e + shift + 1, m |-> TwoTo52]
                       ELSE [e |-> e + shift, m |-> m]

IsFinite(x) == DOMAIN x = {"e", "m"}

\* the operator * on two numbers
FMul(a, b) ==
    IF a = NaN \/ b = NaN THEN NaN
    ELSE IF a = DInf \/ b = DInf
         THEN (IF a = DZero \/ b = DZero THEN NaN ELSE DInf)
    ELSE IF a = DZero \/ b = DZero THEN DZero
    ELSE RoundPack(MulLimbs(a.m, b.m), FALSE, a.e + b.e)

\* one step of restoring division: the next quotient bit of R / D
DivStep(QR, D) ==
    LET R2 == DoubleLimbs(QR[2])
        Q2 == DoubleLimbs(QR[1])
    IN  IF GeqLimbs(R2, D) THEN <<AddOne(Q2), SubLimbs(R2, D)>> ELSE <<Q2, R2>>

\* n steps of it; each step's result is computed once, as a value
RECURSIVE DivSteps(_, _, _)
DivSteps(QR, D, n) ==
    IF n = 0 THEN QR
    ELSE CHOOSE out \in {DivSteps(DivStep(v, D), D, n - 1) : v \in {QR}} : TRUE

\* the operator / on two numbers
FDiv(a, b) ==
    IF a = NaN \/ b = NaN THEN NaN
    ELSE IF a = DInf THEN (IF b = DInf THEN NaN ELSE DInf)
    ELSE IF b = DInf THEN DZero
    ELSE IF b = DZero THEN (IF a = DZero THEN NaN ELSE DInf)
    ELSE IF a = DZero THEN DZero
    ELSE LET first == GeqLimbs(a.m, b.m)
             R0 == IF first THEN SubLimbs(a.m, b.m) ELSE a.m
             Q0 == IF first THEN <<1, 0, 0, 0>> ELSE <<0, 0, 0, 0>>
             QR == DivSteps(<<Q0, R0>>, b.m, 55)
         IN  RoundPack(QR[1], ~IsZeroLimbs(QR[2]), a.e - b.e - 55)

\* the double that is the integer n, 0 < n < 2^31
FromInt(n) ==
    LET limbs == <<n % Base, (n \div Base) % Base, n \div (Base * Base), 0>>
        len == BitLen(limbs)
    IN  [e |-> len - 53, m |-> ShiftLeftLimbs(limbs, 53 - len, 4)]

\* the double a decimal literal denotes: the one nearest to n / d
Literal(n, d) == IF n = 0 THEN DZero ELSE FDiv(FromInt(n), FromInt(d))

\* the next double above and the next double below a finite double
Succ(x) ==
    LET m == AddOne(x.m)
    IN  IF m = TwoTo53 THEN [e |-> x.e + 1, m |-> TwoTo52] ELSE [e |-> x.e, m |-> m]

Pred(x) ==
    IF x.m = TwoTo52 THEN [e |-> x.e - 1, m |-> SubOne(TwoTo53)]
                     ELSE [e |-> x.e, m |-> SubOne(x.m)]

\* ------------------------------------------------------------- constants
CACHE_DURATION_MS == 60 * 60 * 1000

CURRENCIES == <<"MGA", "USD", "EUR", "CNY">>

FALLBACK_RATES_FROM_USD ==
    [k \in {"USD", "EUR", "CNY", "MGA"} |->
        CASE k = "USD" -> Num(100)
          [] k = "EUR" -> Num(92)
          [] k = "CNY" -> Num(724)
          [] k = "MGA" -> Num(450000)]

\* key order of the object literal that fetchLiveRates returns
RateKeys == <<"USD", "EUR", "CNY", "MGA">>

\* ------------------------------------------------------------------ JSON
\* JSON.stringify of a rates object: the own keys in insertion order, a key
\* whose value is undefined is left out.  The text is the sequence of its
\* "key":number members.
\* a stringify that writes every rate as a whole number
JSONStringify_wholeNumbers(obj) ==
    LET kept == SelectSeq(RateKeys, LAMBDA k : JSGet(obj, k) # Undefined)
    IN  [i \in 1..Len(kept) |-> <<kept[i], (obj[kept[i]].num \div 100) * 100>>]

JSONStringify(obj) ==
    LET kept == SelectSeq(RateKeys, LAMBDA k : JSGet(obj, k) # Undefined)
    IN  [i \in 1..Len(kept) |-> <<kept[i], obj[kept[i]].num>>]

\* JSON.parse of such a text: an object that has exactly the keys of the text
JSONParse(text) ==
    [k \in {text[i][1] : i \in 1..Len(text)} |->
        Num(text[CHOOSE i \in 1..Len(text) : text[i][1] = k][2])]

\* ------------------------------------------------- the remote rate source
\* What open.er-api.com may answer.  A body is either one on which
\* response.json() rejects, or the parsed data object.
TableA == [k \in {"USD", "EUR", "CNY", "MGA"} |->
              CASE k = "USD" -> Num(100)
                [] k = "EUR" -> Num(90)
                [] k = "CNY" -> Num(720)
                [] k = "MGA" -> Num(440000)]

TableB == [k \in {"USD", "EUR", "CNY", "MGA", "GBP"} |->
              CASE k = "USD" -> Num(100)
                [] k = "EUR" -> Num(95)
                [] k = "CNY" -> Num(700)
                [] k = "MGA" -> Num(460000)
                [] k = "GBP" -> Num(79)]

TableNoEUR == [k \in {"USD", "CNY", "MGA"} |-> TableA[k]]

Unparsable == [parsable |-> FALSE]

Bodies ==
    { Unparsable,
      [parsable |-> TRUE, data |-> [result |-> Undefined]],
      [parsable |-> TRUE, data |-> [rates |-> TableA]],
      [parsable |-> TRUE, data |-> [rates |-> TableB]],
      [parsable |-> TRUE, data |-> [rates |-> TableNoEUR]] }

\* ------------------------------------------------------------------ state
VARIABLES
    now,          \* Date.now(), in milliseconds
    tablesExist,  \* initRatesDB has created the tables
    rates_cache,  \* the rows of table rates_cache
    calls,        \* per caller: the getRates invocation it has made
    conversion_history,  \* the rows of table conversion_history
    sqlite_sequence,     \* AUTOINCREMENT: the largest id ever handed out
    histOp,              \* the last history operation and its outcome
    conv,                \* the conversion under way: arguments and results
    screen               \* the state of the converter screen

rateVars == <<rates_cache, calls>>
histVars == <<conversion_history, sqlite_sequence, histOp>>
vars == <<now, tablesExist, rates_cache, calls,
          conversion_history, sqlite_sequence, histOp, conv, screen>>

\* A getRates invocation.  pc is its position: "idle" (none made yet),
\* "awaitFetch" (suspended in await fetch), "awaitJson" (suspended in await
\* response.json()), "returned" (promise fulfilled with result), "thrown"
\* (promise rejected).  cached is the local of that name, body the response
\* body being read.  The remaining fields record what the invocation did:
\* snapAtCall is the rates_cache row at the call and ageAtCall its age in
\* milliseconds then (Null when there was no row),
\* fetches counts calls of fetchLiveRates, fetched is the object
\* fetchLiveRates returned (Null if it threw or was not called), writes counts
\* the completed UPDATE/INSERT statements on rates_cache, dbError is "read"
\* or "write" when the SELECT of loadRatesFromCache or a statement of
\* saveRatesToCache threw, else "none".
IdleCall ==
    [pc |-> "idle", cached |-> Null, body |-> Null, result |-> Null,
     snapAtCall |-> Null, ageAtCall |-> Null, fetches |-> 0, fetched |-> Null,
     writes |-> 0, dbError |-> "none"]

\* ----------------------------------------------------------- cache helpers
\* db.getFirstSync('SELECT ... FROM rates_cache WHERE id = 1')
GetFirstRow(table) ==
    IF \E r \in table : r.id = 1
    THEN CHOOSE r \in table : r.id = 1
    ELSE Null

\* a save whose UPDATE forgets the fetched_at column
saveRatesToCache_keepTimestamp(table, rates, t) ==
    LET existing == GetFirstRow(table)
    IN  IF existing # Null
        THEN { IF r.id = 1
               THEN [r EXCEPT !.base = "USD",
                              !.rates = JSONStringify(rates)]
               ELSE r : r \in table }
        ELSE table \cup { [id |-> 1, base |-> "USD",
                           rates |-> JSONStringify(rates),
                           fetched_at |-> ToISOString(t)] }

\* a save that always INSERTs, with the next free id
saveRatesToCache_alwaysInsert(table, rates, t) ==
    table \cup { [id |-> Cardinality(table) + 1, base |-> "USD",
                   rates |-> JSONStringify(rates),
                   fetched_at |-> ToISOString(t)] }

\* a save whose UPDATE merges the new rates into the stored ones
saveRatesToCache_merge(table, rates, t) ==
    LET existing == GetFirstRow(table)
    IN  IF existing # Null
        THEN { IF r.id = 1
               THEN LET old == JSONParse(r.rates)
                        merged == [k \in DOMAIN old \cup DOMAIN rates |->
                                     IF JSGet(rates, k) # Undefined
                                     THEN rates[k] ELSE JSGet(old, k)]
                    IN  [r EXCEPT !.base = "USD",
                                  !.rates = JSONStringify(merged),
                                  !.fetched_at = ToISOString(t)]
               ELSE r : r \in table }
        ELSE table \cup { [id |-> 1, base |-> "USD",
                           rates |-> JSONStringify(rates),
                           fetched_at |-> ToISOString(t)] }

saveRatesToCache(table, rates, t) ==
    LET existing == GetFirstRow(table)
    IN  IF existing # Null
        THEN { IF r.id = 1
               THEN [r EXCEPT !.base = "USD",
                              !.rates = JSONStringify(rates),
                              !.fetched_at = ToISOString(t)]
               ELSE r : r \in table }
        ELSE table \cup { [id |-> 1, base |-> "USD",
                           rates |-> JSONStringify(rates),
                           fetched_at |-> ToISOString(t)] }

\* a load that rounds the age up to whole minutes
loadRatesFromCache_ceilMinutes(table, t) ==
    LET row == GetFirstRow(table)
    IN  IF row = Null THEN Null
        ELSE LET ageMs == t - DateParse(row.fetched_at)
                 isFresh == ageMs < CACHE_DURATION_MS
             IN  [rates |-> JSONParse(row.rates),
                  isFresh |-> isFresh,
                  fetchedAt |-> row.fetched_at,
                  ageMinutes |-> Num((ageMs + 59999) \div 60000)]

\* a load that compares the age with one minute instead of one hour
loadRatesFromCache_minuteThreshold(table, t) ==
    LET row == GetFirstRow(table)
    IN  IF row = Null THEN Null
        ELSE LET ageMs == t - DateParse(row.fetched_at)
                 isFresh == ageMs < 60000
             IN  [rates |-> JSONParse(row.rates),
                  isFresh |-> isFresh,
                  fetchedAt |-> row.fetched_at,
                  ageMinutes |-> Num(ageMs \div 60000)]

\* a load that counts an age of exactly one hour as fresh
loadRatesFromCache_inclusive(table, t) ==
    LET row == GetFirstRow(table)
    IN  IF row = Null THEN Null
        ELSE LET ageMs == t - DateParse(row.fetched_at)
                 isFresh == ageMs <= CACHE_DURATION_MS
             IN  [rates |-> JSONParse(row.rates),
                  isFresh |-> isFresh,
                  fetchedAt |-> row.fetched_at,
                  ageMinutes |-> Num(ageMs \div 60000)]

loadRatesFromCache(table, t) ==
    LET row == GetFirstRow(table)
    IN  IF row = Null THEN Null
        ELSE LET ageMs == t - DateParse(row.fetched_at)
                 isFresh == ageMs < CACHE_DURATION_MS
             IN  [rates |-> JSONParse(row.rates),
                  isFresh |-> isFresh,
                  fetchedAt |-> row.fetched_at,
                  ageMinutes |-> Num(ageMs \div 60000)]

\* --------------------------------------------------------------- API fetch
\* the object literal at the end of fetchLiveRates
ExtractRates(data) ==
    [k \in {RateKeys[i] : i \in 1..Len(RateKeys)} |-> JSGet(data.rates, k)]

\* data.rates.USD throws a TypeError when data has no rates member
HasRates(data) == JSGet(data, "rates") # Undefined

\* --------------------------------------------------------------- getRates
FreshResult(cached) ==
    [rates |-> cached.rates, source |-> "cache",
     fetchedAt |-> cached.fetchedAt, ageMinutes |-> cached.ageMinutes]

LiveResult(rates, t) ==
    [rates |-> rates, source |-> "live",
     fetchedAt |-> ToISOString(t), ageMinutes |-> Num(0)]

\* a catch block whose stale result carries no age
CatchResult_noAge(cached) ==
    IF cached # Null
    THEN [rates |-> cached.rates, source |-> "cache",
          fetchedAt |-> cached.fetchedAt, ageMinutes |-> Null]
    ELSE [rates |-> FALLBACK_RATES_FROM_USD, source |-> "fallback",
          fetchedAt |-> Null, ageMinutes |-> Null]

\* a catch block that skips the stale cache
CatchResult_noStale(cached) ==
    [rates |-> FALLBACK_RATES_FROM_USD, source |-> "fallback",
     fetchedAt |-> Null, ageMinutes |-> Null]

\* a catch block whose fallback reports an age of 0 minutes
CatchResult_zeroAge(cached) ==
    IF cached # Null
    THEN [rates |-> cached.rates, source |-> "cache",
          fetchedAt |-> cached.fetchedAt, ageMinutes |-> cached.ageMinutes]
    ELSE [rates |-> FALLBACK_RATES_FROM_USD, source |-> "fallback",
          fetchedAt |-> Null, ageMinutes |-> Num(0)]

\* the catch block: stale cache if there is one, else the built-in table
CatchResult(cached) ==
    IF cached # Null
    THEN [rates |-> cached.rates, source |-> "cache",
          fetchedAt |-> cached.fetchedAt, ageMinutes |-> cached.ageMinutes]
    ELSE [rates |-> FALLBACK_RATES_FROM_USD, source |-> "fallback",
          fetchedAt |-> Null, ageMinutes |-> Null]

\* No history operation made yet.  op is "save", "get" or "clear"; dbError
\* tells whether its SQL statement failed and threw whether the operation
\* raised to its caller; value is what getHistory returned and limit its
\* argument; inserted is the id of the row that saveToHistory added (0 when
\* it added none).
NoHistOp ==
    [op |-> "none", dbError |-> FALSE, threw |-> FALSE, value |-> <<>>,
     limit |-> 0, inserted |-> 0]

\* no conversion asked for
NoConversion ==
    [phase |-> "none", amount |-> Null, fromCurrency |-> Null,
     toCurrency |-> Null, rates |-> Null, out |-> Null, back |-> Null]

InitStore ==
    /\ now = 0
    /\ tablesExist = FALSE
    /\ rates_cache = {}
    /\ calls = [c \in Callers |-> IdleCall]
    /\ conversion_history = {}
    /\ sqlite_sequence = 0
    /\ histOp = NoHistOp

\* the useState values of ConverterScreen before it is mounted.  variant is
\* the version of the screen: "debounced" saves to history from an 800 ms
\* timer (scheduleHistorySave), "immediate" saves from the effect itself.
\* rates is the rates object and ratesRef tells objects apart: 0 is the
\* constant FALLBACK_RATES_FROM_USD, 1 and 2 are objects made by a call.
\* The source null of ratesMeta is written "null".  saveTimer is the pending
\* timeout.  effectDue says that a dependency of the history effect has
\* changed and the effect has not run yet; changedAt is the time of the last
\* such change; userChanged says that the user has changed the amount or
\* the currency pair since the screen last called saveToHistory.
InitialScreen(variant) ==
    [variant |-> variant, mounted |-> FALSE,
     rates |-> Null, ratesRef |-> 0,
     ratesMeta |-> [source |-> "null", ageMinutes |-> Null],
     loading |-> TRUE, refreshing |-> FALSE,
     amount |-> [str |-> <<>>], displayAmount |-> [str |-> <<>>],
     fromCurrency |-> IF variant = "debounced" THEN "CNY" ELSE "USD",
     toCurrency |-> "MGA",
     snackbar |-> "",
     saveTimer |-> Null,
     effectDue |-> FALSE, changedAt |-> 0, userChanged |-> FALSE,
     gestures |-> 0]

Init == InitStore /\ conv = NoConversion /\ screen = InitialScreen("debounced")

\* App's mount effect: CREATE TABLE IF NOT EXISTS, which keeps existing rows
initRatesDB ==
    /\ tablesExist' = TRUE
    /\ UNCHANGED <<now, rates_cache, calls, histVars, conv, screen>>

\* time passes
Tick ==
    /\ \E d \in TickSteps :
          /\ now + d <= MaxClockMs
          /\ now' = now + d
    /\ UNCHANGED <<tablesExist, rates_cache, calls, histVars, conv, screen>>

\* getRates() up to its first suspension.  loadRatesFromCache runs outside
\* the try block: when its SELECT throws (dbOk false: no such table, I/O
\* error, a rates text that JSON.parse rejects) the promise is rejected.
CallGetRates(c) ==
    /\ calls[c].pc \in {"idle", "returned", "thrown"}
    /\ \E dbOk \in BOOLEAN :
          LET row == GetFirstRow(rates_cache)
              start == [IdleCall EXCEPT
                          !.snapAtCall = row,
                          !.ageAtCall = IF row = Null THEN Null
                                        ELSE Num(now - row.fetched_at.iso)]
          IN  IF ~(tablesExist /\ dbOk)
              THEN calls' = [calls EXCEPT ![c] =
                                [start EXCEPT !.pc = "thrown",
                                              !.dbError = "read"]]
              ELSE LET cached == loadRatesFromCache(rates_cache, now)
                   IN  IF cached # Null /\ cached.isFresh
                       THEN calls' = [calls EXCEPT ![c] =
                                [start EXCEPT !.pc = "returned",
                                              !.cached = cached,
                                              !.result = FreshResult(cached)]]
                       ELSE calls' = [calls EXCEPT ![c] =
                                [start EXCEPT !.pc = "awaitFetch",
                                              !.cached = cached,
                                              !.fetches = 1]]
    /\ UNCHANGED <<now, tablesExist, rates_cache, histVars, conv>>

\* a catch block that also empties the conversion history
FetchSettles_dropsHistory(c) ==
    /\ calls[c].pc = "awaitFetch"
    /\ \/ \E failure \in {"rejected", "notOk"} :
             /\ calls' = [calls EXCEPT ![c].pc = "returned",
                                       ![c].result = CatchResult(calls[c].cached)]
             /\ conversion_history' = {}
       \/ \E body \in Bodies :
             /\ calls' = [calls EXCEPT ![c].pc = "awaitJson", ![c].body = body]
             /\ UNCHANGED conversion_history
    /\ UNCHANGED <<now, tablesExist, rates_cache, sqlite_sequence, histOp, conv>>

\* fetchLiveRates called outside the try block: its failure rejects getRates
FetchSettles_uncaught(c) ==
    /\ calls[c].pc = "awaitFetch"
    /\ \/ \E failure \in {"rejected", "notOk"} :
             calls' = [calls EXCEPT ![c].pc = "thrown"]
       \/ \E body \in Bodies :
             calls' = [calls EXCEPT ![c].pc = "awaitJson", ![c].body = body]
    /\ UNCHANGED <<now, tablesExist, rates_cache, histVars, conv>>

\* await fetch(...) settles.  It rejects on a transport failure or when the
\* 8 s AbortSignal fires; a response that is not ok makes fetchLiveRates
\* throw.  Both land in the catch block of getRates.
FetchSettlesOf(c, bodies) ==
    /\ calls[c].pc = "awaitFetch"
    /\ \/ \E failure \in {"rejected", "notOk"} :
             calls' = [calls EXCEPT ![c].pc = "returned",
                                    ![c].result = CatchResult(calls[c].cached)]
       \/ \E body \in bodies :
             calls' = [calls EXCEPT ![c].pc = "awaitJson", ![c].body = body]
    /\ UNCHANGED <<now, tablesExist, rates_cache, histVars, conv>>

FetchSettles(c) == FetchSettlesOf(c, Bodies)

\* await response.json() settles, and getRates runs to its end:
\* saveRatesToCache inside the try block, then the return.
JsonSettles(c) ==
    /\ calls[c].pc = "awaitJson"
    /\ LET body == calls[c].body
           cached == calls[c].cached
       IN  IF ~body.parsable \/ ~HasRates(body.data)
           THEN /\ calls' = [calls EXCEPT ![c].pc = "returned",
                                          ![c].body = Null,
                                          ![c].result = CatchResult(cached)]
                /\ UNCHANGED rates_cache
           ELSE LET rates == ExtractRates(body.data)
                IN  \E dbOk \in BOOLEAN :
                       IF tablesExist /\ dbOk
                       THEN /\ rates_cache' = saveRatesToCache(rates_cache, rates, now)
                            /\ calls' = [calls EXCEPT ![c].pc = "returned",
                                                      ![c].body = Null,
                                                      ![c].fetched = rates,
                                                      ![c].writes = 1,
                                                      ![c].result = LiveResult(rates, now)]
                       ELSE /\ UNCHANGED rates_cache
                            /\ calls' = [calls EXCEPT ![c].pc = "returned",
                                                      ![c].body = Null,
                                                      ![c].fetched = rates,
                                                      ![c].dbError = "write",
                                                      ![c].result = CatchResult(cached)]
    /\ UNCHANGED <<now, tablesExist, histVars, conv>>

\* ---------------------------------------------------------------- history
\* SQLite's CURRENT_TIMESTAMP: 'YYYY-MM-DD HH:MM:SS', the time cut to whole
\* seconds; such texts sort in time order
CurrentTimestamp(ms) == [ts |-> ms \div 1000]

\* what the converter screen hands to saveToHistory: from, to, amount,
\* result, rate.  A result or rate that is NaN (a rate table lacking the
\* currency) is bound as NULL and violates NOT NULL.
HistoryPayloads ==
    { [from |-> "USD", to |-> "MGA", amount |-> Num(1000),
       result |-> Num(4500000), rate |-> Num(450000)],
      [from |-> "EUR", to |-> "USD", amount |-> Num(200),
       result |-> Num(217), rate |-> Num(109)],
      [from |-> "EUR", to |-> "MGA", amount |-> Num(1000),
       result |-> NaN, rate |-> NaN] }

\* the limits getHistory is called with; SQLite reads a negative LIMIT as
\* "no limit"
Limits == {0 - 1, 0, 1, 2, 30}

\* the NOT NULL columns: the currency codes are always strings here
NotNullHolds(p) ==
    \A v \in {p.amount, p.result, p.rate} : v \notin {NaN, Null, Undefined}

MaxOf(S) == CHOOSE x \in S : \A y \in S : y <= x

\* INTEGER PRIMARY KEY without AUTOINCREMENT: one more than the largest id
\* the table holds now
NextId_rowidOnly(table, seq) == MaxOf({0} \cup {r.id : r \in table}) + 1

\* INTEGER PRIMARY KEY AUTOINCREMENT: one more than the largest id the table
\* has ever held
NextId(table, seq) == MaxOf({seq} \cup {r.id : r \in table}) + 1

\* an INSERT that also stamps the rows already there with the current time
InsertHistory_restamp(table, seq, p, t) ==
    { [r EXCEPT !.converted_at = CurrentTimestamp(t)] : r \in table }
    \cup { [id |-> NextId(table, seq),
             from_currency |-> p.from, to_currency |-> p.to,
             amount |-> p.amount, result |-> p.result, rate |-> p.rate,
             converted_at |-> CurrentTimestamp(t)] }

\* the INSERT of saveToHistory
InsertHistory(table, seq, p, t) ==
    table \cup { [id |-> NextId(table, seq),
                   from_currency |-> p.from, to_currency |-> p.to,
                   amount |-> p.amount, result |-> p.result, rate |-> p.rate,
                   converted_at |-> CurrentTimestamp(t)] }

\* the SELECT with ORDER BY converted_at ASC
SelectNewest_ascending(table, limit) ==
    LET n == Cardinality(table)
        count == IF limit < 0 \/ limit > n THEN n ELSE limit
    IN  { out \in [1..count -> table] :
            /\ \A i, j \in 1..count : i < j =>
                  /\ out[i] # out[j]
                  /\ out[i].converted_at.ts <= out[j].converted_at.ts
            /\ \A r \in table \ {out[i] : i \in 1..count} :
                  \A i \in 1..count : out[i].converted_at.ts <= r.converted_at.ts }

\* SELECT * FROM conversion_history ORDER BY converted_at DESC LIMIT ?
\* The rows come newest first; SQL leaves the order of rows with equal
\* converted_at open, so every such order is a possible answer.
SelectNewest(table, limit) ==
    LET n == Cardinality(table)
        count == IF limit < 0 \/ limit > n THEN n ELSE limit
    IN  { out \in [1..count -> table] :
            /\ \A i, j \in 1..count : i < j =>
                  /\ out[i] # out[j]
                  /\ out[i].converted_at.ts >= out[j].converted_at.ts
            /\ \A r \in table \ {out[i] : i \in 1..count} :
                  \A i \in 1..count : out[i].converted_at.ts >= r.converted_at.ts }

\* saveToHistory: the INSERT inside try/catch; a failure is logged only
SaveToHistoryOf(payloads) ==
    /\ sqlite_sequence < MaxIds
    /\ \E p \in payloads, dbOk \in BOOLEAN :
          IF tablesExist /\ dbOk /\ NotNullHolds(p)
          THEN /\ conversion_history' =
                     InsertHistory(conversion_history, sqlite_sequence, p, now)
               /\ sqlite_sequence' = NextId(conversion_history, sqlite_sequence)
               /\ histOp' = [NoHistOp EXCEPT
                               !.op = "save",
                               !.inserted = NextId(conversion_history, sqlite_sequence)]
          ELSE /\ UNCHANGED <<conversion_history, sqlite_sequence>>
               /\ histOp' = [NoHistOp EXCEPT !.op = "save", !.dbError = TRUE]
    /\ UNCHANGED <<now, tablesExist, rateVars, conv>>

SaveToHistory == SaveToHistoryOf(HistoryPayloads)

\* getHistory(limit): the SELECT inside try/catch; a failure gives []
GetHistoryOf(limits) ==
    /\ \E limit \in limits, dbOk \in BOOLEAN :
          IF tablesExist /\ dbOk
          THEN \E out \in SelectNewest(conversion_history, limit) :
                  histOp' = [NoHistOp EXCEPT !.op = "get", !.limit = limit,
                                             !.value = out]
          ELSE histOp' = [NoHistOp EXCEPT !.op = "get", !.limit = limit,
                                          !.dbError = TRUE]
    /\ UNCHANGED <<now, tablesExist, rateVars, conversion_history, sqlite_sequence, conv, screen>>

GetHistory == GetHistoryOf(Limits)

\* a clear that deletes the oldest record only
ClearHistory_oldestOnly ==
    /\ \E dbOk \in BOOLEAN :
          IF tablesExist /\ dbOk
          THEN /\ conversion_history' =
                     { r \in conversion_history :
                         \E o \in conversion_history : o.id < r.id }
               /\ histOp' = [NoHistOp EXCEPT !.op = "clear"]
          ELSE /\ UNCHANGED conversion_history
               /\ histOp' = [NoHistOp EXCEPT !.op = "clear", !.dbError = TRUE,
                                             !.threw = TRUE]
    /\ UNCHANGED <<now, tablesExist, rateVars, sqlite_sequence, conv, screen>>

\* a clear that empties both tables
ClearHistory_allTables ==
    /\ \E dbOk \in BOOLEAN :
          IF tablesExist /\ dbOk
          THEN /\ conversion_history' = {}
               /\ rates_cache' = {}
               /\ histOp' = [NoHistOp EXCEPT !.op = "clear"]
          ELSE /\ UNCHANGED <<conversion_history, rates_cache>>
               /\ histOp' = [NoHistOp EXCEPT !.op = "clear", !.dbError = TRUE,
                                             !.threw = TRUE]
    /\ UNCHANGED <<now, tablesExist, calls, sqlite_sequence, conv, screen>>

\* clearHistory: DELETE FROM conversion_history, not inside a try block
ClearHistory ==
    /\ \E dbOk \in BOOLEAN :
          IF tablesExist /\ dbOk
          THEN /\ conversion_history' = {}
               /\ histOp' = [NoHistOp EXCEPT !.op = "clear"]
          ELSE /\ UNCHANGED conversion_history
               /\ histOp' = [NoHistOp EXCEPT !.op = "clear", !.dbError = TRUE,
                                             !.threw = TRUE]
    /\ UNCHANGED <<now, tablesExist, rateVars, sqlite_sequence, conv, screen>>

\* half a second passes
TickHalfSecond ==
    /\ now + 500 <= MaxHalfSeconds * 500
    /\ now' = now + 500
    /\ UNCHANGED <<tablesExist, rateVars, histVars, conv, screen>>

\* ---------------------------------------------------------------- convert
\* A string is the sequence of its characters; the characters of the model
\* are the decimal digits, the dot, the space and the letter a.
Str(chars) == [str |-> chars]
IsString(v) == DOMAIN v = {"str"}

DigitChars == <<"0", "1", "2", "3", "4", "5", "6", "7", "8", "9">>
IsDigit(c) == \E i \in 1..10 : DigitChars[i] = c
DigitValue(c) == (CHOOSE i \in 1..10 : DigitChars[i] = c) - 1

RECURSIVE DigitsValue(_)
DigitsValue(ds) ==
    IF ds = <<>> THEN 0
    ELSE 10 * DigitsValue(SubSeq(ds, 1, Len(ds) - 1)) + DigitValue(ds[Len(ds)])

\* how many digits s starts with
LeadingDigits(s) ==
    CHOOSE n \in 0..Len(s) :
        /\ \A i \in 1..n : IsDigit(s[i])
        /\ n = Len(s) \/ ~IsDigit(s[n + 1])

IsSpace(c) == c = " "

TrimStart(s) ==
    LET n == CHOOSE k \in 0..Len(s) :
                 /\ \A i \in 1..k : IsSpace(s[i])
                 /\ k = Len(s) \/ ~IsSpace(s[k + 1])
    IN  SubSeq(s, n + 1, Len(s))

TrimEnd(s) ==
    LET n == CHOOSE k \in 0..Len(s) :
                 /\ \A i \in (Len(s) - k + 1)..Len(s) : IsSpace(s[i])
                 /\ k = Len(s) \/ ~IsSpace(s[Len(s) - k])
    IN  SubSeq(s, 1, Len(s) - n)

Trim(s) == TrimEnd(TrimStart(s))

\* the longest decimal literal t starts with (digits, then optionally a dot
\* and digits; or a dot and at least one digit): its length and its value;
\* length 0 when t starts with none
DecimalPrefix(t) ==
    LET i == LeadingDigits(t)
        rest == SubSeq(t, i + 1, Len(t))
        dot == rest # <<>> /\ rest[1] = "."
        f == IF dot THEN LeadingDigits(Tail(rest)) ELSE 0
    IN  IF i = 0 /\ f = 0 THEN [len |-> 0, value |-> NaN]
        ELSE [len |-> i + (IF dot THEN 1 + f ELSE 0),
              value |-> Literal(DigitsValue(SubSeq(t, 1, i) \o SubSeq(rest, 2, 1 + f)),
                                10^f)]

\* a number written as Num(h) is the decimal literal h / 100
ToDouble(v) == IF DOMAIN v = {"num"} THEN Literal(v.num, 100) ELSE v

\* Number(v), the conversion that isNaN and the operators / and * apply
ToNumber(v) ==
    IF IsString(v)
    THEN LET t == Trim(v.str)
             p == DecimalPrefix(t)
         IN  IF t = <<>> THEN DZero
             ELSE IF p.len = Len(t) THEN p.value ELSE NaN
    ELSE IF v = Null THEN DZero
    ELSE IF v = Undefined THEN NaN
    ELSE ToDouble(v)

IsNaN(v) == ToNumber(v) = NaN

\* parseFloat(v) reads the longest decimal literal after leading white space
\* of String(v).  String(null) and String(undefined) start with none; the
\* text of a number reads back as that number.
ParseFloat_integerPart(v) ==
    IF IsString(v)
    THEN LET t == TrimStart(v.str)
             i == LeadingDigits(t)
         IN  IF i = 0 THEN NaN ELSE Literal(DigitsValue(SubSeq(t, 1, i)), 1)
    ELSE IF v = Null \/ v = Undefined THEN NaN
    ELSE ToDouble(v)

ParseFloat(v) ==
    IF IsString(v)
    THEN LET p == DecimalPrefix(TrimStart(v.str))
         IN  IF p.len = 0 THEN NaN ELSE p.value
    ELSE IF v = Null \/ v = Undefined THEN NaN
    ELSE ToDouble(v)

\* !rates, for rates an object, null or undefined
Falsy(rates) == rates = Null \/ rates = Undefined

convert_swapped(amount, fromCurrency, toCurrency, rates) ==
    IF Falsy(rates) \/ IsNaN(amount) \/ amount = Str(<<>>) THEN DZero
    ELSE LET amountUSD == FDiv(ParseFloat(amount), ToNumber(JSGet(rates, toCurrency)))
         IN  FMul(amountUSD, ToNumber(JSGet(rates, fromCurrency)))

convert_noDivide(amount, fromCurrency, toCurrency, rates) ==
    IF Falsy(rates) \/ IsNaN(amount) \/ amount = Str(<<>>) THEN DZero
    ELSE LET amountUSD == ParseFloat(amount)
         IN  FMul(amountUSD, ToNumber(JSGet(rates, toCurrency)))

convert(amount, fromCurrency, toCurrency, rates) ==
    IF Falsy(rates) \/ IsNaN(amount) \/ amount = Str(<<>>) THEN DZero
    ELSE LET amountUSD == FDiv(ParseFloat(amount), ToNumber(JSGet(rates, fromCurrency)))
         IN  FMul(amountUSD, ToNumber(JSGet(rates, toCurrency)))

\* the amounts convert is applied to: numbers (1, 3, 12.5, 1000, 0, NaN),
\* strings ("1000", "12.5", ".5", " 3 ", "", "  ", "12a", "."), null and
\* undefined
ConvertAmounts ==
    { Num(100), Num(300), Num(1250), Num(100000), Num(0), NaN,
      Str(<<"1", "0", "0", "0">>), Str(<<"1", "2", ".", "5">>),
      Str(<<".", "5">>), Str(<<" ", "3", " ">>),
      Str(<<>>), Str(<<" ", " ">>), Str(<<"1", "2", "a">>), Str(<<".">>),
      Null, Undefined }

\* the rate tables it is applied to: none yet (the screen's state before
\* getRates answers), the fallback constants, a live table, a live table
\* whose EUR member is undefined and the same table read back from the cache
ConvertRates ==
    { Null,
      FALLBACK_RATES_FROM_USD,
      ExtractRates([rates |-> TableA]),
      ExtractRates([rates |-> TableNoEUR]),
      JSONParse(JSONStringify(ExtractRates([rates |-> TableNoEUR]))) }

ConvertCurrencies == {CURRENCIES[i] : i \in 1..Len(CURRENCIES)}

InitConvert ==
    /\ InitStore
    /\ screen = InitialScreen("debounced")
    /\ \E amount \in ConvertAmounts, rates \in ConvertRates :
       \E fromCurrency \in ConvertCurrencies, toCurrency \in ConvertCurrencies :
          conv = [phase |-> "input", amount |-> amount,
                  fromCurrency |-> fromCurrency, toCurrency |-> toCurrency,
                  rates |-> rates, out |-> Null, back |-> Null]

\* convert(amount, fromCurrency, toCurrency, rates)
Convert ==
    /\ conv.phase = "input"
    /\ conv' = [conv EXCEPT
                  !.phase = "converted",
                  !.out = convert(conv.amount, conv.fromCurrency,
                                  conv.toCurrency, conv.rates)]
    /\ UNCHANGED <<now, tablesExist, rateVars, histVars, screen>>

\* convert(result, toCurrency, fromCurrency, rates): the result converted back
ConvertBack ==
    /\ conv.phase = "converted"
    /\ conv' = [conv EXCEPT
                  !.phase = "back",
                  !.back = convert(conv.out, conv.toCurrency,
                                   conv.fromCurrency, conv.rates)]
    /\ UNCHANGED <<now, tablesExist, rateVars, histVars, screen>>

\* ------------------------------------------------------- converter screen
\* the three messages of loadRates
UpdatedMsg == "Rates updated!"
NoInternetMsg == "Using cached rates - no internet"
LoadFailedMsg == "Could not load rates"

\* the two versions of ConverterScreen in the repository
ScreenVariants == {"debounced", "immediate"}

\* text.replace(/[^0-9.]/g, "") and the collapse of every dot after the
\* first: the raw amount of handleAmountChange
CleanAmount(text) ==
    LET cleaned == SelectSeq(text, LAMBDA ch : IsDigit(ch) \/ ch = ".")
        dots == {i \in 1..Len(cleaned) : cleaned[i] = "."}
        first == IF dots = {} THEN 0
                 ELSE CHOOSE i \in dots : \A j \in dots : i <= j
        keep == {i \in 1..Len(cleaned) : cleaned[i] # "." \/ i = first}
        count == Cardinality(keep)
        Nth(n) == CHOOSE i \in keep : Cardinality({j \in keep : j <= i}) = n
    IN  [n \in 1..count |-> cleaned[Nth(n)]]

\* the integer part with a comma before every group of three digits, the
\* decimal part as it is: the displayed amount of handleAmountChange
FormatThousands(raw) ==
    LET dots == {i \in 1..Len(raw) : raw[i] = "."}
        n == IF dots = {} THEN Len(raw) ELSE (CHOOSE i \in dots : TRUE) - 1
        Group(i) == IF i > 1 /\ (n - i + 1) % 3 = 0 THEN <<",", raw[i]>>
                                                    ELSE <<raw[i]>>
        Join[i \in 0..n] == IF i = 0 THEN <<>> ELSE Join[i - 1] \o Group(i)
    IN  Join[n] \o SubSeq(raw, n + 1, Len(raw))

\* the texts the amount field and the quick buttons deliver: "", "5",
\* "1,0005" (a 5 typed after the displayed "1,000"), "." and " "
AmountTexts ==
    { <<>>, <<"5">>, <<"1", ",", "0", "0", "0", "5">>, <<".">>, <<" ">> }

\* the currency whose FROM and TO buttons are pressed
PressedCurrencies == {"USD"}

\* the guard of scheduleHistorySave and of the auto-save effect:
\* !rates || !amount || isNaN(amount) || parseFloat(amount) <= 0
NothingToSave(amt, rates) ==
    \/ Falsy(rates)
    \/ amt.str = <<>>
    \/ IsNaN(amt)
    \/ ParseFloat(amt) = DZero

\* the arguments of saveToHistory: from, to, parseFloat(amount), the
\* converted amount and the rate of the pair
SavePayload(from, to, amt, rates) ==
    [from |-> from, to |-> to, amount |-> ParseFloat(amt),
     result |-> convert(ParseFloat(amt), from, to, rates),
     rate |-> convert(Num(100), from, to, rates)]

\* the rest of loadRates without its finally block after a throw
AfterGetRates_noFinally(scr, isRefresh, call, t) ==
    IF call.pc = "returned"
    THEN LET r == call.result
             ref == IF r.source = "fallback" THEN 0
                    ELSE IF scr.ratesRef = 1 THEN 2 ELSE 1
             changed == scr.rates = Null \/ ref # scr.ratesRef
         IN  [scr EXCEPT
                !.rates = r.rates, !.ratesRef = ref,
                !.ratesMeta = [source |-> r.source, ageMinutes |-> r.ageMinutes],
                !.snackbar = IF ~isRefresh THEN @
                             ELSE IF r.source = "live" THEN UpdatedMsg
                             ELSE NoInternetMsg,
                !.loading = FALSE, !.refreshing = FALSE,
                !.effectDue = changed,
                !.changedAt = IF changed THEN t ELSE @]
    ELSE [scr EXCEPT !.snackbar = LoadFailedMsg]

\* the screen after the rest of loadRates: call is the settled getRates
\* invocation.  When it has returned, the rates, their provenance and (on a
\* refresh) the message are set; when it has thrown, the failure message;
\* loading and refreshing end in both cases.  A rates object other than the
\* one held makes the history effect due.
AfterGetRates(scr, isRefresh, call, t) ==
    IF call.pc = "returned"
    THEN LET r == call.result
             ref == IF r.source = "fallback" THEN 0
                    ELSE IF scr.ratesRef = 1 THEN 2 ELSE 1
             changed == scr.rates = Null \/ ref # scr.ratesRef
         IN  [scr EXCEPT
                !.rates = r.rates, !.ratesRef = ref,
                !.ratesMeta = [source |-> r.source, ageMinutes |-> r.ageMinutes],
                !.snackbar = IF ~isRefresh THEN @
                             ELSE IF r.source = "live" THEN UpdatedMsg
                             ELSE NoInternetMsg,
                !.loading = FALSE, !.refreshing = FALSE,
                !.effectDue = changed,
                !.changedAt = IF changed THEN t ELSE @]
    ELSE [scr EXCEPT !.snackbar = LoadFailedMsg,
                     !.loading = FALSE, !.refreshing = FALSE]

\* no getRates promise is settled with loadRates still to resume: the
\* continuation of an await runs before any timer, input or effect
NoneSettled == \A c \in Callers : calls[c].pc \notin {"returned", "thrown"}

\* the screen is shown and takes input: mounted, not behind the loading
\* indicator, and no effect waiting to run
TakesInput ==
    /\ NoneSettled
    /\ screen.mounted /\ ~screen.loading /\ ~screen.effectDue

\* a change of the amount or of the currency pair by the user
UserSets(amt, display, from, to) ==
    LET changed == \/ amt # screen.amount
                   \/ from # screen.fromCurrency
                   \/ to # screen.toCurrency
    IN  /\ screen.gestures < MaxGestures
        /\ screen' = [screen EXCEPT
                        !.gestures = IF changed THEN @ + 1 ELSE @,
                        !.amount = amt, !.displayAmount = display,
                        !.fromCurrency = from, !.toCurrency = to,
                        !.effectDue = changed,
                        !.changedAt = IF changed THEN now ELSE @,
                        !.userChanged = @ \/ changed]
        /\ UNCHANGED <<now, tablesExist, rateVars, histVars, conv>>

\* the mount effect of ConverterScreen: loadRates() up to `await getRates()`
MountScreen ==
    /\ ~screen.mounted
    /\ CallGetRates("load")
    /\ screen' = [screen EXCEPT !.mounted = TRUE, !.loading = TRUE]

\* onRefresh of the RefreshControl: loadRates(true) up to `await getRates()`
PullToRefresh ==
    /\ TakesInput
    /\ ~screen.refreshing
    /\ screen.gestures < MaxGestures
    /\ CallGetRates("refresh")
    /\ screen' = [screen EXCEPT !.refreshing = TRUE, !.gestures = @ + 1]

\* the bodies the remote source answers the screen's calls with
ScreenBodies == { [parsable |-> TRUE, data |-> [rates |-> TableA]] }

\* loadRates from `await getRates()` to its end, for the settled call c
LoadRatesResumes(c) ==
    /\ calls[c].pc \in {"returned", "thrown"}
    /\ screen' = AfterGetRates(screen, c = "refresh", calls[c], now)
    /\ calls' = [calls EXCEPT ![c] = IdleCall]
    /\ UNCHANGED <<now, tablesExist, rates_cache, histVars, conv>>

\* onChangeText of the amount field and the quick amount buttons:
\* handleAmountChange(text) in the debounced version, setAmount(text) in the
\* immediate one
HandleAmountChange ==
    /\ TakesInput
    /\ \E text \in AmountTexts :
          IF screen.variant = "debounced"
          THEN UserSets(Str(CleanAmount(text)),
                        Str(FormatThousands(CleanAmount(text))),
                        screen.fromCurrency, screen.toCurrency)
          ELSE UserSets(Str(text), Str(text),
                        screen.fromCurrency, screen.toCurrency)

\* handleSwap
HandleSwap ==
    /\ TakesInput
    /\ UserSets(screen.amount, screen.displayAmount,
                screen.toCurrency, screen.fromCurrency)

\* onPress of a FROM currency button without the exchange
PressFromCurrency_noExchange ==
    /\ TakesInput
    /\ \E c \in PressedCurrencies :
          UserSets(screen.amount, screen.displayAmount, c, screen.toCurrency)

\* onPress of a FROM currency button
PressFromCurrency ==
    /\ TakesInput
    /\ \E c \in PressedCurrencies :
          UserSets(screen.amount, screen.displayAmount, c,
                   IF c = screen.toCurrency THEN screen.fromCurrency
                                            ELSE screen.toCurrency)

\* onPress of a TO currency button
PressToCurrency ==
    /\ TakesInput
    /\ \E c \in PressedCurrencies :
          UserSets(screen.amount, screen.displayAmount,
                   IF c = screen.fromCurrency THEN screen.toCurrency
                                              ELSE screen.fromCurrency,
                   c)

\* onDismiss of the Snackbar
DismissSnackbar ==
    /\ TakesInput
    /\ screen.snackbar # ""
    /\ screen' = [screen EXCEPT !.snackbar = ""]
    /\ UNCHANGED <<now, tablesExist, rateVars, histVars, conv>>

\* the history effect of the debounced version, run after a change of
\* amount, fromCurrency, toCurrency or rates: the cleanup clears the timer,
\* scheduleHistorySave sets a new one of 800 ms when there is something to
\* save
ScheduleHistorySave ==
    /\ NoneSettled
    /\ screen.variant = "debounced"
    /\ screen.effectDue
    /\ screen' = [screen EXCEPT
                    !.effectDue = FALSE,
                    !.saveTimer =
                        IF NothingToSave(screen.amount, screen.rates) THEN Null
                        ELSE [due |-> now + 800,
                              from |-> screen.fromCurrency,
                              to |-> screen.toCurrency,
                              amt |-> screen.amount,
                              currentRates |-> screen.rates]]
    /\ UNCHANGED <<now, tablesExist, rateVars, histVars, conv>>

\* the callback of that timer, not before its 800 ms are over
\* half a second of a pending timer's 800 ms passes
SaveTimerWaits ==
    /\ NoneSettled
    /\ screen.saveTimer # Null
    /\ TickHalfSecond

SaveTimerFires ==
    /\ NoneSettled
    /\ screen.saveTimer # Null
    /\ ~screen.effectDue
    /\ now >= screen.saveTimer.due
    /\ SaveToHistoryOf({ SavePayload(screen.saveTimer.from, screen.saveTimer.to,
                                     screen.saveTimer.amt,
                                     screen.saveTimer.currentRates) })
    /\ screen' = [screen EXCEPT !.saveTimer = Null, !.userChanged = FALSE]

\* the auto-save effect of the immediate version, run after a change of
\* amount, fromCurrency, toCurrency or rates
AutoSaveEffect ==
    /\ NoneSettled
    /\ screen.variant = "immediate"
    /\ screen.effectDue
    /\ IF NothingToSave(screen.amount, screen.rates)
       THEN /\ screen' = [screen EXCEPT !.effectDue = FALSE]
            /\ UNCHANGED <<now, tablesExist, rateVars, histVars, conv>>
       ELSE /\ SaveToHistoryOf({ SavePayload(screen.fromCurrency, screen.toCurrency,
                                             screen.amount, screen.rates) })
            /\ screen' = [screen EXCEPT !.effectDue = FALSE,
                                        !.userChanged = FALSE]

InitScreen ==
    /\ InitStore
    /\ conv = NoConversion
    /\ \E variant \in ScreenVariants : screen = InitialScreen(variant)

NextScreen ==
    \/ NoneSettled /\ initRatesDB
    \/ SaveTimerWaits
    \/ MountScreen
    \/ PullToRefresh
    \/ \E c \in Callers : FetchSettlesOf(c, ScreenBodies) /\ UNCHANGED screen
    \/ \E c \in Callers : JsonSettles(c) /\ UNCHANGED screen
    \/ \E c \in Callers : LoadRatesResumes(c)
    \/ HandleAmountChange
    \/ HandleSwap
    \/ PressFromCurrency
    \/ PressToCurrency
    \/ DismissSnackbar
    \/ ScheduleHistorySave
    \/ SaveTimerFires
    \/ AutoSaveEffect

SpecScreen == InitScreen /\ [][NextScreen]_vars

\* the screen with its pending work done: the fetch of a call settles (it
\* succeeds, fails or is aborted by its timeout), response.json() settles,
\* and the continuation of loadRates runs
SpecScreenFair ==
    /\ SpecScreen
    /\ \A c \in Callers :
          WF_vars(FetchSettlesOf(c, ScreenBodies) /\ UNCHANGED screen)
    /\ \A c \in Callers : WF_vars(JsonSettles(c) /\ UNCHANGED screen)
    /\ \A c \in Callers : WF_vars(LoadRatesResumes(c))

Next ==
    \/ initRatesDB
    \/ Tick
    \/ \E c \in Callers : CallGetRates(c) /\ UNCHANGED screen
    \/ \E c \in Callers : FetchSettles(c) /\ UNCHANGED screen
    \/ \E c \in Callers : JsonSettles(c) /\ UNCHANGED screen

Spec == Init /\ [][Next]_vars

\* getRates with its pending work done: the fetch of each call settles (an
\* answer, a failure, or the abort of AbortSignal.timeout(8000)) and so does
\* its response.json()
SpecFair ==
    /\ Spec
    /\ \A c \in Callers : WF_vars(FetchSettles(c) /\ UNCHANGED screen)
    /\ \A c \in Callers : WF_vars(JsonSettles(c) /\ UNCHANGED screen)

NextHistory ==
    \/ initRatesDB
    \/ TickHalfSecond
    \/ SaveToHistory /\ UNCHANGED screen
    \/ GetHistory
    \/ ClearHistory

SpecHistory == Init /\ [][NextHistory]_vars

\* the rate policy of one caller and the history screen (getHistory(30),
\* clearHistory) with the converter's saves, on the same database
StorePayloads ==
    { [from |-> "USD", to |-> "MGA", amount |-> Num(1000),
       result |-> Num(4500000), rate |-> Num(450000)] }

NextStore ==
    \/ initRatesDB
    \/ Tick
    \/ CallGetRates("load") /\ UNCHANGED screen
    \/ FetchSettles("load") /\ UNCHANGED screen
    \/ JsonSettles("load") /\ UNCHANGED screen
    \/ SaveToHistoryOf(StorePayloads) /\ UNCHANGED screen
    \/ GetHistoryOf({30})
    \/ ClearHistory

SpecStore == Init /\ [][NextStore]_vars

NextConvert ==
    \/ Convert
    \/ ConvertBack

SpecConvert == InitConvert /\ [][NextConvert]_vars

TypeOK ==
    /\ now \in 0..MaxClockMs
    /\ tablesExist \in BOOLEAN
    /\ \A c \in Callers :
          calls[c].pc \in {"idle", "awaitFetch", "awaitJson", "returned", "thrown"}

\* ======================================================================
\* Properties
\* ======================================================================
SupportedCurrencies == {"USD", "EUR", "CNY", "MGA"}

\* the rate a stored row holds for currency k, read off its JSON text
SnapshotRate(row, k) ==
    IF \E i \in 1..Len(row.rates) : row.rates[i][1] = k
    THEN Num(row.rates[CHOOSE i \in 1..Len(row.rates) : row.rates[i][1] = k][2])
    ELSE Undefined

SnapshotKeys(row) == {row.rates[i][1] : i \in 1..Len(row.rates)}

SameRates(obj, row) ==
    \A k \in SupportedCurrencies : JSGet(obj, k) = SnapshotRate(row, k)

\* age of the stored snapshot when caller c made its call
AgeAtCall(c) == calls[c].ageAtCall.num

\* fetchLiveRates returns normally on this body
FetchSucceeds(body) == body.parsable /\ "rates" \in DOMAIN body.data

\* the step in which caller c's fetch attempt ends in failure
FetchFailsStep(c) ==
    /\ calls[c].pc \in {"awaitFetch", "awaitJson"}
    /\ calls'[c].pc = "returned"
    /\ calls'[c].fetched = Null

\* C1: a getRates call that finds a snapshot younger than one hour (and whose
\* read of the cache does not throw, which is the case of C7) returns that
\* snapshot's rates and fetched_at with source 'cache', without suspending,
\* without calling fetchLiveRates and without writing to rates_cache.
C1_FreshCacheServed ==
    \A c \in Callers :
        ( /\ calls[c].pc # "idle"
          /\ calls[c].dbError # "read"
          /\ calls[c].snapAtCall # Null
          /\ AgeAtCall(c) < 3600000 )
        => /\ calls[c].pc = "returned"
           /\ calls[c].result.source = "cache"
           /\ SameRates(calls[c].result.rates, calls[c].snapAtCall)
           /\ calls[c].result.fetchedAt = calls[c].snapAtCall.fetched_at
           /\ calls[c].fetches = 0
           /\ calls[c].writes = 0

\* a call served a snapshot aged 59.5 minutes from the cache
C1_Witness ==
    \E c \in Callers :
        /\ calls[c].pc = "returned"
        /\ calls[c].snapAtCall # Null
        /\ AgeAtCall(c) = 3570000
        /\ calls[c].result.source = "cache"
        /\ calls[c].result.ageMinutes = Num(59)

C3_LiveFetchOverwrites ==
    [][ \A c \in Callers :
          ( /\ calls[c].pc = "awaitJson"
            /\ calls'[c].pc = "returned"
            /\ FetchSucceeds(calls[c].body)
            /\ calls'[c].dbError = "none" )
          => /\ calls'[c].result.source = "live"
             /\ calls'[c].result.ageMinutes = Num(0)
             /\ \A k \in SupportedCurrencies :
                   JSGet(calls'[c].result.rates, k)
                     = JSGet(calls[c].body.data.rates, k)
             /\ Cardinality(rates_cache') = 1
             /\ \A row \in rates_cache' :
                   /\ row.fetched_at = [iso |-> now]
                   /\ SnapshotKeys(row) \subseteq SupportedCurrencies
                   /\ \A k \in SupportedCurrencies :
                         SnapshotRate(row, k) = JSGet(calls[c].body.data.rates, k)
      ]_vars

\* a live result has replaced a stale snapshot that held other rates
C3_Witness ==
    \E c \in Callers :
        /\ calls[c].pc = "returned"
        /\ calls[c].result.source = "live"
        /\ calls[c].snapAtCall # Null
        /\ \E row \in rates_cache :
              /\ row.rates # calls[c].snapAtCall.rates
              /\ row.fetched_at = [iso |-> now]
              /\ SameRates(calls[c].result.rates, row)

\* C4: in the step in which the fetch of a call that found a (stale) snapshot
\* fails, the call returns that snapshot's rates and fetched_at with source
\* 'cache', and the step leaves rates_cache as it was.
C4_StaleCacheServed ==
    [][ \A c \in Callers :
          (FetchFailsStep(c) /\ calls[c].snapAtCall # Null)
          => /\ calls'[c].result.source = "cache"
             /\ SameRates(calls'[c].result.rates, calls[c].snapAtCall)
             /\ calls'[c].result.fetchedAt = calls[c].snapAtCall.fetched_at
             /\ calls'[c].writes = 0
             /\ rates_cache' = rates_cache
      ]_vars

\* a stale snapshot was served after a failed fetch and is still the stored one
C4_Witness ==
    \E c \in Callers :
        /\ calls[c].pc = "returned"
        /\ calls[c].fetches = 1
        /\ calls[c].fetched = Null
        /\ calls[c].snapAtCall # Null
        /\ calls[c].result.source = "cache"
        /\ calls[c].result.ageMinutes = Num(90)
        /\ rates_cache = {calls[c].snapAtCall}

\* C5: in the step in which the fetch of a call that found no snapshot fails,
\* the call returns the built-in table (USD 1, EUR 0.92, CNY 7.24, MGA 4500)
\* with source 'fallback', fetchedAt and ageMinutes null, and the step
\* persists nothing: rates_cache is as it was, empty if it was empty.
C5_FallbackOnEmptyStore ==
    [][ \A c \in Callers :
          (FetchFailsStep(c) /\ calls[c].snapAtCall = Null)
          => /\ calls'[c].result.source = "fallback"
             /\ calls'[c].result.rates =
                   [k \in SupportedCurrencies |->
                       CASE k = "USD" -> Num(100)
                         [] k = "EUR" -> Num(92)
                         [] k = "CNY" -> Num(724)
                         [] k = "MGA" -> Num(450000)]
             /\ calls'[c].result.fetchedAt = Null
             /\ calls'[c].result.ageMinutes = Null
             /\ calls'[c].writes = 0
             /\ rates_cache' = rates_cache
      ]_vars

\* the fallback table was returned and the store is still empty
C5_Witness ==
    \E c \in Callers :
        /\ calls[c].pc = "returned"
        /\ calls[c].fetches = 1
        /\ calls[c].result.source = "fallback"
        /\ rates_cache = {}

\* C6: a getRates call that has attempted a fetch never ends rejected, and
\* every result returned carries a rate set and a source that is one of
\* 'live', 'cache', 'fallback'.
C6_FetchFailureNeverSurfaces ==
    \A c \in Callers :
        /\ calls[c].fetches >= 1 => calls[c].pc # "thrown"
        /\ calls[c].pc = "returned"
             => /\ calls[c].result.source \in {"live", "cache", "fallback"}
                /\ calls[c].result.rates \notin {Null, Undefined}

\* one call has returned after a failed fetch while the other returned live
C6_Witness ==
    \E c, d \in Callers :
        /\ c # d
        /\ calls[c].pc = "returned"
        /\ calls[c].fetches = 1
        /\ calls[c].fetched = Null
        /\ calls[d].pc = "returned"
        /\ calls[d].result.source = "live"

\* C7: a getRates call whose read of the rate cache throws does not fail:
\* it goes on to the remote attempt and returns 'live' or 'fallback'.
C7_ReadFailureIsCacheAbsent ==
    \A c \in Callers :
        calls[c].dbError = "read"
        => /\ calls[c].pc # "thrown"
           /\ calls[c].fetches = 1
           /\ calls[c].pc = "returned"
                => calls[c].result.source \in {"live", "fallback"}

\* C8: a getRates call whose fetch succeeded and whose save threw returns
\* the fetched rates with source 'live'.
C8_WriteFailureStillLive ==
    \A c \in Callers :
        (calls[c].pc = "returned" /\ calls[c].dbError = "write")
        => /\ calls[c].result.source = "live"
           /\ calls[c].result.rates = calls[c].fetched

\* C9: every result returned as 'live' and every stored snapshot has a
\* defined rate for each of USD, EUR, CNY and MGA (fetchLiveRates fails on a
\* response that lacks one).
C9_AllCurrenciesDefined ==
    /\ \A c \in Callers :
          (calls[c].pc = "returned" /\ calls[c].result.source = "live")
          => \A k \in SupportedCurrencies :
                JSGet(calls[c].result.rates, k) # Undefined
    /\ \A row \in rates_cache :
          \A k \in SupportedCurrencies : SnapshotRate(row, k) # Undefined

\* C10: rates_cache never holds more than one row, and a row it holds has
\* id 1 and base 'USD'.
C10_SingleSnapshotRow ==
    /\ Cardinality(rates_cache) <= 1
    /\ \A row \in rates_cache : row.id = 1 /\ row.base = "USD"

\* both callers have saved a snapshot, the later save over the earlier row
C10_Witness ==
    /\ rates_cache # {}
    /\ \A c \in Callers : calls[c].pc = "returned" /\ calls[c].writes = 1
    /\ \E c \in Callers : calls[c].snapAtCall # Null

\* C11: when both callers' current calls have fetched and saved, the stored
\* snapshot is wholly the one of the call that saved last: its rates are that
\* call's fetched rates, its fetched_at is that call's, and the other call
\* saved no later.  It is never a mixture of the two fetched rate sets.
C11_LastWriteWins ==
    \A c, d \in Callers :
        ( /\ c # d
          /\ calls[c].pc = "returned" /\ calls[c].writes = 1
          /\ calls[d].pc = "returned" /\ calls[d].writes = 1 )
        => \E w \in {c, d} :
              /\ \A o \in {c, d} :
                    calls[o].result.fetchedAt.iso <= calls[w].result.fetchedAt.iso
              /\ Cardinality(rates_cache) = 1
              /\ \A row \in rates_cache :
                    /\ row.fetched_at = calls[w].result.fetchedAt
                    /\ SnapshotKeys(row) \subseteq SupportedCurrencies
                    /\ SameRates(calls[w].fetched, row)

\* two calls that both started on an empty store (so they overlapped) have
\* both fetched and saved, and their rate sets differ in every currency but USD
C11_Witness ==
    \E c, d \in Callers :
        /\ c # d
        /\ calls[c].pc = "returned" /\ calls[c].writes = 1
        /\ calls[d].pc = "returned" /\ calls[d].writes = 1
        /\ calls[c].snapAtCall = Null /\ calls[d].snapAtCall = Null
        /\ JSGet(calls[c].fetched, "EUR") = Num(95)
        /\ JSGet(calls[d].fetched, "EUR") = Undefined
        /\ \E row \in rates_cache : SameRates(calls[d].fetched, row)

\* C12: a step never empties a rates_cache that holds a snapshot, whichever
\* operation takes it: getRates on any path, saveToHistory, getHistory or
\* clearHistory.
C12_SnapshotNeverDeleted ==
    [][ rates_cache # {} => rates_cache' # {} ]_vars

\* a snapshot is still stored after a clearHistory that deleted records
C12_Witness ==
    /\ rates_cache # {}
    /\ calls["load"].pc = "returned"
    /\ calls["load"].snapAtCall # Null
    /\ histOp.op = "clear" /\ ~histOp.threw
    /\ sqlite_sequence > 0
    /\ conversion_history = {}

\* rows of the history that getHistory did not return
NotReturned == conversion_history \ {histOp.value[i] : i \in 1..Len(histOp.value)}

\* ---------------------------------------------------------------- convert
\* a number that is not NaN, or a string that Number reads as a number and
\* that is not empty or white space only
IsNumericAmount(a) ==
    \/ DOMAIN a \in {{"num"}, {"e", "m"}, {"zero"}, {"inf"}}
    \/ IsString(a) /\ Trim(a.str) # <<>> /\ ToNumber(a) # NaN

\* the empty string, null, undefined, or a string of white space only
IsEmptyAmount(a) ==
    \/ a = Null
    \/ a = Undefined
    \/ IsString(a) /\ Trim(a.str) = <<>>

\* rates is a table in which currency k has a rate
RatePresent(rates, k) ==
    /\ ~Falsy(rates)
    /\ JSGet(rates, k) # Undefined

Converted == conv.phase \in {"converted", "back"}

\* the doubles at most k doubles away from x
RECURSIVE Above(_, _)
Above(x, k) == IF k = 0 THEN {x} ELSE {x} \cup Above(Succ(x), k - 1)

RECURSIVE Below(_, _)
Below(x, k) == IF k = 0 THEN {x} ELSE {x} \cup Below(Pred(x), k - 1)

Neighbours(x, k) == IF IsFinite(x) THEN Above(x, k) \cup Below(x, k) ELSE {x}

\* C13: for a present rate table and a numeric amount, and currencies from
\* and to that both have a rate in the table, convert(amount, from, to,
\* rates) is (amount / rates[from]) * rates[to], computed with the operators
\* / and * on the number the amount denotes.
C13_ConvertFormula ==
    ( /\ Converted
      /\ IsNumericAmount(conv.amount)
      /\ RatePresent(conv.rates, conv.fromCurrency)
      /\ RatePresent(conv.rates, conv.toCurrency) )
    => conv.out = FMul(FDiv(ToNumber(conv.amount),
                            ToDouble(conv.rates[conv.fromCurrency])),
                       ToDouble(conv.rates[conv.toCurrency]))

\* convert("12.5", "EUR", "MGA", fallback) has returned 61141.30434782608
C13_Witness ==
    /\ conv.phase = "converted"
    /\ conv.amount = Str(<<"1", "2", ".", "5">>)
    /\ conv.fromCurrency = "EUR"
    /\ conv.toCurrency = "MGA"
    /\ conv.rates = FALLBACK_RATES_FROM_USD
    /\ conv.out = [e |-> -37, m |-> <<9972, 13534, 10907, 1910>>]

\* C14: convert returns 0 whenever rates is absent, whenever the amount is
\* not numeric and whenever the amount is an empty value (empty string, null,
\* undefined, white space only), whatever from and to are; it does not
\* return NaN for such inputs.
C14_ZeroOnUnusableInput ==
    ( /\ Converted
      /\ \/ Falsy(conv.rates)
         \/ ~IsNumericAmount(conv.amount)
         \/ IsEmptyAmount(conv.amount) )
    => conv.out = DZero

\* C15 as stated: convert(x, a, a, rates) is exactly x for every numeric x
\* and every currency a that has a rate in rates.
C15_SameCurrencyExact ==
    ( /\ Converted
      /\ conv.fromCurrency = conv.toCurrency
      /\ IsNumericAmount(conv.amount)
      /\ RatePresent(conv.rates, conv.fromCurrency) )
    => conv.out = ToNumber(conv.amount)

\* C15 amended: convert(x, a, a, rates) is x up to the rounding of the
\* division and the multiplication: it is x or one of the two doubles next
\* to x, and it is x itself when rates[a] is 1.
C15_SameCurrencyWithinRounding ==
    ( /\ Converted
      /\ conv.fromCurrency = conv.toCurrency
      /\ IsNumericAmount(conv.amount)
      /\ RatePresent(conv.rates, conv.fromCurrency) )
    => /\ conv.out \in Neighbours(ToNumber(conv.amount), 1)
       /\ conv.rates[conv.fromCurrency] = Num(100)
             => conv.out = ToNumber(conv.amount)

\* convert(1000, "EUR", "EUR", fallback) has returned the double next above
\* 1000
C15_Witness ==
    /\ conv.phase = "converted"
    /\ conv.amount = Num(100000)
    /\ conv.fromCurrency = "EUR"
    /\ conv.toCurrency = "EUR"
    /\ conv.rates = FALLBACK_RATES_FROM_USD
    /\ conv.out = Succ(Literal(100000, 100))

\* C16: for currencies a # b that both have a rate in rates, converting a
\* numeric x from a to b and the result back from b to a recovers x within
\* floating-point tolerance: the value that comes back is at most four
\* doubles away from x (a relative error below 2^-50).
C16_RoundTripWithinTolerance ==
    ( /\ conv.phase = "back"
      /\ conv.fromCurrency # conv.toCurrency
      /\ IsNumericAmount(conv.amount)
      /\ RatePresent(conv.rates, conv.fromCurrency)
      /\ RatePresent(conv.rates, conv.toCurrency) )
    => conv.back \in Neighbours(ToNumber(conv.amount), 4)

\* a round trip between two different currencies has come back to a double
\* next to the amount it started from
C16_Witness ==
    /\ conv.phase = "back"
    /\ conv.fromCurrency # conv.toCurrency
    /\ IsNumericAmount(conv.amount)
    /\ RatePresent(conv.rates, conv.fromCurrency)
    /\ RatePresent(conv.rates, conv.toCurrency)
    /\ conv.back # ToNumber(conv.amount)
    /\ conv.back \in Neighbours(ToNumber(conv.amount), 4)


\* C17: a getHistory(1) that directly follows a saveToHistory which appended
\* a record returns that record as its sole element, whatever the history
\* already held (records of the same second included).
C17_LatestAfterSave ==
    [][ ( /\ histOp.op = "save" /\ histOp.inserted # 0
          /\ histOp'.op = "get" /\ histOp'.limit = 1 /\ ~histOp'.dbError )
        => /\ Len(histOp'.value) = 1
           /\ histOp'.value[1].id = histOp.inserted
      ]_vars

\* C18 as stated: getHistory(n) returns no more than n records (none when n
\* is negative), newest first, and no record left out is newer than one
\* returned, for every limit n.
C18_AtMostLimitEveryLimit ==
    histOp.op = "get"
    => /\ Len(histOp.value) <= (IF histOp.limit < 0 THEN 0 ELSE histOp.limit)
       /\ \A i, j \in 1..Len(histOp.value) :
             i < j => histOp.value[i].converted_at.ts >= histOp.value[j].converted_at.ts
       /\ \A r \in NotReturned : \A i \in 1..Len(histOp.value) :
             histOp.value[i].converted_at.ts >= r.converted_at.ts

\* C18 amended: for every limit n >= 0, getHistory(n) returns no more than n
\* records, all of them (distinct) records of the history, ordered by
\* converted_at descending, and no record left out is newer than one
\* returned; unless the SELECT failed it returns n records or the whole
\* history.
C18_AtMostLimit ==
    (histOp.op = "get" /\ histOp.limit >= 0)
    => /\ Len(histOp.value) <= histOp.limit
       /\ \A i \in 1..Len(histOp.value) : histOp.value[i] \in conversion_history
       /\ \A i, j \in 1..Len(histOp.value) :
             i < j => /\ histOp.value[i] # histOp.value[j]
                      /\ histOp.value[i].converted_at.ts >= histOp.value[j].converted_at.ts
       /\ \A r \in NotReturned : \A i \in 1..Len(histOp.value) :
             histOp.value[i].converted_at.ts >= r.converted_at.ts
       /\ ~histOp.dbError =>
             \/ Len(histOp.value) = histOp.limit
             \/ NotReturned = {}

\* getHistory(2) on three records of two different seconds returned the two
\* newest
C18_Witness ==
    /\ histOp.op = "get" /\ histOp.limit = 2
    /\ Cardinality(conversion_history) = 3
    /\ Len(histOp.value) = 2
    /\ \E r \in NotReturned : r.converted_at.ts < histOp.value[2].converted_at.ts

\* C19: a clearHistory that completes leaves no record, and a getHistory(30)
\* that directly follows it returns the empty sequence.
C19_ClearThenEmpty ==
    [][ /\ (histOp'.op = "clear" /\ ~histOp'.threw) => conversion_history' = {}
        /\ ( /\ histOp.op = "clear" /\ ~histOp.threw
             /\ histOp'.op = "get" /\ histOp'.limit = 30 )
           => histOp'.value = <<>>
      ]_vars

\* getHistory(30) found the table empty although AUTOINCREMENT had handed out
\* every id the model allows: the records were cleared
C19_Witness ==
    /\ histOp.op = "get" /\ histOp.limit = 30 /\ ~histOp.dbError
    /\ histOp.value = <<>>
    /\ sqlite_sequence >= 3

\* C20: no history operation raises to its caller, and a getHistory whose
\* SELECT failed returns the empty sequence.
C20_HistoryFailuresCaught ==
    /\ ~histOp.threw
    /\ (histOp.op = "get" /\ histOp.dbError) => histOp.value = <<>>

\* ---------------------------------------------------------------- history
\* C21: across saveToHistory and clearHistory, the ids in the table are
\* unique, and every record that is added gets an id strictly greater than
\* every id handed out before it, those of records that a clearHistory has
\* deleted included: ids are never reused.
C21_IdsNeverReused ==
    [][ /\ \A a, b \in conversion_history : a.id = b.id => a = b
        /\ \A a \in conversion_history : a.id <= sqlite_sequence
        /\ sqlite_sequence' >= sqlite_sequence
        /\ conversion_history' \ conversion_history # {}
           => \E r \in conversion_history' :
                 /\ conversion_history' \ conversion_history = {r}
                 /\ r.id = histOp'.inserted
                 /\ r.id > sqlite_sequence
                 /\ \A o \in conversion_history : r.id > o.id
                 /\ sqlite_sequence' = r.id
      ]_vars

\* a save after a clear: the only record in the table has an id above 1
C21_Witness ==
    /\ histOp.op = "save" /\ histOp.inserted >= 2
    /\ \A r \in conversion_history : r.id = histOp.inserted
    /\ conversion_history # {}

\* C22: a history record is immutable once created.  A step either leaves
\* the set of records as it is, or adds exactly one record with a new id and
\* keeps every other record with all its fields, or (clearHistory) deletes
\* all records.
C22_RecordsImmutable ==
    [][ \/ conversion_history' = conversion_history
        \/ /\ histOp'.op = "save"
           /\ \E r \in conversion_history' :
                 /\ r \notin conversion_history
                 /\ \A o \in conversion_history : o.id # r.id
                 /\ conversion_history' = conversion_history \cup {r}
        \/ /\ histOp'.op = "clear"
           /\ conversion_history' = {}
      ]_vars

\* a record of an earlier second is still there, unchanged, after a later
\* save and a read
C22_Witness ==
    /\ histOp.op = "get" /\ ~histOp.dbError
    /\ \E a, b \in conversion_history :
          /\ a.id < b.id
          /\ a.converted_at.ts < b.converted_at.ts
          /\ a.converted_at.ts = 0

\* C23: the rate cache and the history are independent.  A step of
\* saveToHistory, getHistory or clearHistory leaves the rows of rates_cache
\* unchanged, and a step of getRates, on every path, leaves the history
\* records and the id sequence unchanged.
C23_CacheAndHistoryIndependent ==
    [][ /\ histOp' # histOp => rates_cache' = rates_cache
        /\ calls' # calls => /\ conversion_history' = conversion_history
                             /\ sqlite_sequence' = sqlite_sequence
      ]_vars

\* a live getRates has stored a snapshot while the history held records, and
\* a read of the history followed
C23_Witness ==
    /\ rates_cache # {}
    /\ conversion_history # {}
    /\ calls["load"].pc = "returned"
    /\ calls["load"].result.source = "live"
    /\ \E r \in conversion_history :
          r.converted_at.ts * 1000 < DateParse(calls["load"].result.fetchedAt)
    /\ histOp.op = "get" /\ ~histOp.dbError

\* --------------------------------------------------------------- getRates
\* the step in which caller c's call returns
ReturnsStep(c) == calls[c].pc # "returned" /\ calls'[c].pc = "returned"

\* C26: under overlapping calls, a call returns source 'fallback' only when
\* the store holds no snapshot at the moment of the return, and a result of
\* source 'cache' carries the rates of the snapshot that the store holds at
\* the moment of the return.
C26_ResultMatchesStoreAtReturn ==
    [][ \A c \in Callers :
          ReturnsStep(c) =>
            /\ calls'[c].result.source = "fallback" => rates_cache' = {}
            /\ calls'[c].result.source = "cache" =>
                  \E row \in rates_cache' :
                     /\ row.id = 1
                     /\ SameRates(calls'[c].result.rates, row)
      ]_vars

\* age in whole minutes of the stored snapshot now
StoredAgeMinutes == (now - DateParse(GetFirstRow(rates_cache).fetched_at)) \div 60000

\* C28: in the stale-cache branch after a failed fetch, the ageMinutes that
\* getRates returns is the age computed when the snapshot was loaded, at the
\* start of the call: floor of the age at the call in minutes.
C28_StaleAgeIsAgeAtLoad ==
    \A c \in Callers :
        ( /\ calls[c].pc = "returned"
          /\ calls[c].result.source = "cache"
          /\ calls[c].fetches = 1 )
        => /\ calls[c].snapAtCall # Null
           /\ calls[c].result.ageMinutes = Num(AgeAtCall(c) \div 60000)
           /\ calls[c].result.fetchedAt = calls[c].snapAtCall.fetched_at

\* a call has returned the stale snapshot with the 60 minutes it had at the
\* call, and the same snapshot, still stored, is 90 minutes old by now
C28_Witness ==
    \E c \in Callers :
        /\ calls[c].pc = "returned"
        /\ calls[c].result.source = "cache"
        /\ calls[c].fetches = 1
        /\ calls[c].result.ageMinutes = Num(60)
        /\ GetFirstRow(rates_cache) = calls[c].snapAtCall
        /\ StoredAgeMinutes = 90

\* C29: ageMinutes fits the branch taken.  A 'cache' result returned without
\* a fetch attempt has 0 <= ageMinutes <= 59, a 'cache' result returned after
\* a failed fetch has ageMinutes >= 60, and in both ageMinutes is
\* floor((load time - fetched_at) / 60000 ms).
C29_AgeFitsBranch ==
    \A c \in Callers :
        ( /\ calls[c].pc = "returned"
          /\ calls[c].result.source = "cache" )
        => LET age == calls[c].result.ageMinutes
           IN  /\ DOMAIN age = {"num"}
               /\ calls[c].fetches = 0 => age.num >= 0 /\ age.num <= 59
               /\ calls[c].fetches = 1 => age.num >= 60
               /\ age.num * 60000 <= AgeAtCall(c)
               /\ AgeAtCall(c) < (age.num + 1) * 60000

\* one call has served a snapshot of 59.5 minutes as fresh with ageMinutes 59,
\* another has fallen back on a snapshot of one hour or more
C29_Witness ==
    \E c, d \in Callers :
        /\ calls[c].pc = "returned" /\ calls[d].pc = "returned"
        /\ calls[c].result.source = "cache" /\ calls[d].result.source = "cache"
        /\ calls[c].fetches = 0 /\ AgeAtCall(c) = 3570000
        /\ calls[c].result.ageMinutes = Num(59)
        /\ calls[d].fetches = 1
        /\ calls[d].result.ageMinutes.num >= 60

\* the snapshot that caller c found at its call is the one that the live
\* result of caller d was stored as
FoundSnapshotOf(c, d) ==
    /\ calls[d].pc = "returned"
    /\ calls[d].result.source = "live"
    /\ calls[c].pc # "idle"
    /\ calls[c].snapAtCall # Null
    /\ calls[c].snapAtCall.fetched_at = calls[d].result.fetchedAt
    /\ calls[c].snapAtCall.rates = JSONStringify(calls[d].result.rates)

\* C30: after a call has returned source 'live', a later call that starts
\* less than one hour afterwards and finds the snapshot of that live result
\* (no other write in between), and whose read of the cache does not throw,
\* returns source 'cache' with the rates the live call returned, and makes no
\* remote fetch.
C30_LiveThenCache ==
    \A c, d \in Callers :
        ( /\ FoundSnapshotOf(c, d)
          /\ AgeAtCall(c) < CACHE_DURATION_MS
          /\ calls[c].dbError # "read" )
        => /\ calls[c].pc = "returned"
           /\ calls[c].result.source = "cache"
           /\ calls[c].fetches = 0
           /\ calls[c].result.fetchedAt = calls[d].result.fetchedAt
           /\ \A k \in SupportedCurrencies :
                 JSGet(calls[c].result.rates, k) = JSGet(calls[d].result.rates, k)

\* 59.5 minutes after one caller's live result another caller was served
\* that result's rates from the cache
C30_Witness ==
    \E c, d \in Callers :
        /\ c # d
        /\ FoundSnapshotOf(c, d)
        /\ AgeAtCall(c) = 3570000
        /\ calls[c].pc = "returned"
        /\ calls[c].result.source = "cache"
        /\ calls[c].fetches = 0
        /\ JSGet(calls[c].result.rates, "EUR") = Num(95)

\* C24: the converter screen calls saveToHistory only when amount, currency
\* pair and rates have stayed unchanged for the full 800 ms, and the record
\* it writes is the conversion then on the screen: no intermediate value of
\* a burst of changes is recorded.
C24_CommitsOnlySettled ==
    [][ conversion_history' # conversion_history =>
          /\ now - screen.changedAt >= 800
          /\ \A r \in conversion_history' \ conversion_history :
                /\ r.from_currency = screen.fromCurrency
                /\ r.to_currency = screen.toCurrency
                /\ r.amount = ParseFloat(screen.amount) ]_vars

\* C25: when loadRates(true) resumes with the result of getRates, a remote
\* fetch was attempted; a fetch that delivered rates leaves the screen with
\* source 'live'; and the "no internet" message is set only when the fetch
\* delivered nothing.
C25_RefreshObtainsLive ==
    [][ (calls["refresh"].pc = "returned" /\ LoadRatesResumes("refresh")) =>
          /\ calls["refresh"].fetches = 1
          /\ calls["refresh"].fetched # Null => screen'.ratesMeta.source = "live"
          /\ screen'.snackbar = NoInternetMsg => calls["refresh"].fetched = Null ]_vars

\* C27: a history record is written only after the user changed the amount
\* or the currency pair since the last record was written: new rates alone
\* write nothing.
C27_RatesAloneSaveNothing ==
    [][ conversion_history' # conversion_history => screen.userChanged ]_vars

\* C31: on the converter screen fromCurrency and toCurrency are always two
\* different supported currencies, and a step that makes one of them the
\* other's previous value exchanges the two.
C31_PairDistinctAndExchanged ==
    /\ [](/\ screen.fromCurrency \in SupportedCurrencies
          /\ screen.toCurrency \in SupportedCurrencies
          /\ screen.fromCurrency # screen.toCurrency)
    /\ [][ (\/ screen'.fromCurrency = screen.toCurrency
            \/ screen'.toCurrency = screen.fromCurrency) =>
              /\ screen'.fromCurrency = screen.toCurrency
              /\ screen'.toCurrency = screen.fromCurrency ]_vars

\* C31 witness: the debounced screen after USD was chosen as target and then
\* as source (or the pair was swapped): CNY has moved to the target
C31_Witness ==
    /\ screen.variant = "debounced"
    /\ screen.gestures = 2
    /\ screen.fromCurrency = "USD"
    /\ screen.toCurrency = "CNY"

\* C32: the converter screen calls saveToHistory only with rates loaded and
\* an entered amount that is numeric and strictly positive, and every record
\* it appends has a positive amount.
C32_SavesOnlyPositiveAmounts ==
    [][ (histOp' # histOp \/ conversion_history' # conversion_history) =>
          /\ screen.rates # Null
          /\ IsNumericAmount(screen.amount)
          /\ ParseFloat(screen.amount) \notin {NaN, DZero}
          /\ \A r \in conversion_history' \ conversion_history :
                r.amount \notin {NaN, DZero, Null, Undefined} ]_vars

\* C33: every run of loadRates ends with loading and refreshing false; when
\* getRates has thrown, the rates and their provenance on the screen stay as
\* they were and the message is "Could not load rates".
C33_LoadRatesEnds ==
    /\ (screen.mounted /\ (screen.loading \/ screen.refreshing))
          ~> (~screen.loading /\ ~screen.refreshing)
    /\ [][ \A c \in Callers :
             (calls[c].pc = "thrown" /\ calls'[c].pc = "idle") =>
                /\ screen'.rates = screen.rates
                /\ screen'.ratesMeta = screen.ratesMeta
                /\ screen'.snackbar = LoadFailedMsg
                /\ ~screen'.loading /\ ~screen'.refreshing ]_vars

\* C33 witness: a pull-to-refresh whose getRates threw has ended: the rates
\* of the initial load are still shown, with the failure message
C33_Witness ==
    /\ screen.mounted
    /\ screen.gestures = 1
    /\ screen.rates # Null
    /\ screen.ratesMeta.source = "live"
    /\ screen.snackbar = LoadFailedMsg
    /\ ~screen.loading /\ ~screen.refreshing

\* C34: every getRates call eventually returns: no call ends by throwing, a
\* call waiting for its fetch or for the body of the answer eventually has
\* returned, a call attempts at most one fetch, and from the fetch a call
\* only moves on to the body or to its return.
C34_GetRatesReturns ==
    /\ \A c \in Callers :
          (calls[c].pc \in {"awaitFetch", "awaitJson"}) ~> (calls[c].pc = "returned")
    /\ [](\A c \in Callers : calls[c].pc # "thrown" /\ calls[c].fetches <= 1)
    /\ [][ \A c \in Callers :
             /\ calls[c].pc = "awaitJson" => calls'[c].pc \in {"awaitJson", "returned"}
             /\ calls[c].pc = "awaitFetch" =>
                   calls'[c].pc \in {"awaitFetch", "awaitJson", "returned"} ]_vars

====
